---- MODULE Spec2Model ----
(***************************************************************************)
(* Model of the edge endpoint's detection pipeline:                        *)
(*   gpio.py      AlarmController   (actuator, cooldown-gated pulse)       *)
(*   pipeline.py  DetectionPipeline (gating, debounced backend notifier)   *)
(*   telemetry.py SupabaseReporter  (telemetry publisher)                  *)
(*   router.py    run_inference / control_alarm (request handlers)         *)
(*                                                                         *)
(* Confidences and times are integers (a confidence c stands for c/MaxConf,*)
(* a time t for t seconds).  An encoded image is a sequence of runs        *)
(* [ch, n] standing for n repetitions of the character ch, so that strings *)
(* of 300000 characters can be sliced and compared.  A label is a sequence *)
(* of characters.  A pulse duration d stands for d tenths of a second.      *)
(***************************************************************************)
EXTENDS Integers, Sequences, FiniteSets, TLC

(* ------------------------------ bounds -------------------------------- *)
MaxConf == 2
MaxDets == 2
MaxCooldown == 2
MaxInference == 2
MaxEvents == 3
MaxDuration == 2

(* ------------------------- program constants -------------------------- *)
MaxEncodedImage == 131072
\* time.sleep(max(0.1, ...)): a tenth of a second
MinHold == 1
\* AlarmSettings.duration_seconds: 3.0 seconds by default
DefaultDuration == 30

VARIABLES
    cfg,          \* EdgeSettings after construction (never written later)
    env,          \* what the collaborators may hand in: detections, images
    clock,        \* time.time()
    device,       \* AlarmController._device is not None
    active,       \* AlarmController._active
    line,         \* the state of the physical output line
    lastTrigger,  \* AlarmController._last_trigger
    lastBackend,  \* DetectionPipeline._last_backend_trigger
    reqs,         \* /inference requests and their background tasks
    manual,       \* the /alarm handler running on the event loop
    pulses,       \* _pulse threads, counted by position
    posts,        \* _post_backend threads: payload and outcome
    telemetry,    \* publish_inference calls: record and outcome
    trigLog,      \* every trigger() call that returned
    notifyLog,    \* every _maybe_post_backend call that returned
    raised,       \* the methods of the controller that have raised
    budget        \* how many more requests, clock ticks and shutdowns arrive

vars == <<cfg, env, clock, device, active, line, lastTrigger, lastBackend,
          reqs, manual, pulses, posts, telemetry, trigLog, notifyLog, raised, budget>>

(* ------------------------------ values -------------------------------- *)
Confs == 0..MaxConf
Chars == {"d", "D", "c"}
Labels == {<<"d">>, <<"D">>, <<"c">>}
Detection == [label : Labels, confidence : Confs]

RECURSIVE SeqsUpTo(_, _)
SeqsUpTo(S, n) ==
    IF n = 0 THEN {<<>>}
    ELSE LET shorter == SeqsUpTo(S, n - 1)
         IN shorter \cup {Append(s, x) : s \in {t \in shorter : Len(t) = n - 1}, x \in S}

None == [some |-> FALSE, val |-> <<>>]
Some(v) == [some |-> TRUE, val |-> v]

Requests == 1..MaxInference

(* ======================= pipeline.py: gating ========================== *)
\* str.lower() on one character
LowerChar(c) == CASE c = "D" -> "d" [] c = "C" -> "c" [] OTHER -> c

\* str.lower()
Lower(label) == [i \in 1..Len(label) |-> LowerChar(label[i])]

\* max(response.detections, key=lambda box: box.confidence): the scan keeps
\* the element seen first unless a later one is strictly greater.
RECURSIVE MaxScan(_, _, _)
MaxScan(dets, i, best) ==
    IF i > Len(dets) THEN best
    ELSE MaxScan(dets, i + 1,
                 IF dets[i].confidence > dets[best].confidence THEN i ELSE best)

\* Faulty variant: a scan that lets a later element of equal confidence win.
RECURSIVE MaxScanLast(_, _, _)
MaxScanLast(dets, i, best) ==
    IF i > Len(dets) THEN best
    ELSE MaxScanLast(dets, i + 1,
                     IF dets[i].confidence >= dets[best].confidence THEN i ELSE best)

HighestIndexLast(dets) == MaxScanLast(dets, 2, 1)

HighestIndex(dets) == MaxScan(dets, 2, 1)

HighestDetection(dets) == dets[HighestIndex(dets)]

\* Faulty variant: a threshold test that is one step too lax.
BelowThresholdLax(confidence, min_confidence) == confidence + 1 < min_confidence

\* highest_detection.confidence < self._detection.min_confidence
BelowThreshold(confidence, min_confidence) == confidence < min_confidence

\* allowed = {label.lower() for label in self._detection.target_labels}
AllowedSet(target_labels) == {Lower(target_labels[i]) : i \in 1..Len(target_labels)}

\* if self._detection.target_labels: ... label.lower() not in allowed
LabelRejected(label, target_labels) ==
    /\ target_labels # <<>>
    /\ Lower(label) \notin AllowedSet(target_labels)

\* Faulty variant: a gate that fires when any detection passes both tests.
GateOutcomeAnyPasses(dets, detection) ==
    IF dets = <<>> THEN "empty"
    ELSE IF \E i \in 1..Len(dets) :
               /\ ~BelowThreshold(dets[i].confidence, detection.min_confidence)
               /\ ~LabelRejected(dets[i].label, detection.target_labels)
         THEN "fire"
         ELSE "below"

\* The three early returns of process_detection, in order.
GateOutcome(dets, detection) ==
    IF dets = <<>> THEN "empty"
    ELSE LET h == HighestDetection(dets)
         IN IF BelowThreshold(h.confidence, detection.min_confidence) THEN "below"
            ELSE IF LabelRejected(h.label, detection.target_labels) THEN "label"
            ELSE "fire"

(* ==================== pipeline.py: backend payload ==================== *)
RECURSIVE StrLen(_)
StrLen(s) == IF s = <<>> THEN 0 ELSE Head(s).n + StrLen(Tail(s))

\* Faulty variant: a slice that keeps one character more.
RECURSIVE SliceOneMore(_, _)
SliceOneMore(s, k) ==
    IF s = <<>> \/ k < 0 THEN <<>>
    ELSE IF Head(s).n <= k + 1
         THEN <<Head(s)>> \o SliceOneMore(Tail(s), k - Head(s).n)
         ELSE <<[ch |-> Head(s).ch, n |-> k + 1]>>

\* s[:k] for k >= 0
RECURSIVE Slice(_, _)
Slice(s, k) ==
    IF s = <<>> \/ k <= 0 THEN <<>>
    ELSE IF Head(s).n <= k THEN <<Head(s)>> \o Slice(Tail(s), k - Head(s).n)
    ELSE <<[ch |-> Head(s).ch, n |-> k]>>

\* encoded_image[:131072] if encoded_image else None
EncodedImageField(encoded_image) ==
    IF encoded_image.some /\ encoded_image.val # <<>>
    THEN Some(Slice(encoded_image.val, MaxEncodedImage))
    ELSE None

\* max((box.confidence for box in response.detections), default=0.0)
RECURSIVE MaxConfidence(_)
MaxConfidence(dets) ==
    IF dets = <<>> THEN 0
    ELSE LET m == MaxConfidence(Tail(dets))
         IN IF Head(dets).confidence >= m THEN Head(dets).confidence ELSE m

\* The payload built by _post_backend (the fields that vary).
BackendPayload(dets, encoded_image) ==
    [confidence_score |-> MaxConfidence(dets),
     detections |-> dets,
     encoded_image |-> EncodedImageField(encoded_image)]

(* ========================= cooldown throttles ========================= *)
\* Faulty variant: a cooldown test that also holds at the end of the window.
AlarmCooldownInclusive(now, last, cooldown) == cooldown > 0 /\ (now - last) <= cooldown

\* Faulty variant: a cooldown test that ends the window one second early.
AlarmCooldownShort(now, last, cooldown) == cooldown > 0 /\ (now - last) < cooldown - 1

\* Faulty variant: an actuator throttle that also honours the notifier's timestamp.
AlarmCooldownShared(now, last, cooldown) ==
    \/ cooldown > 0 /\ (now - last) < cooldown
    \/ cfg.detection.cooldown_seconds > 0
          /\ lastBackend > 0
          /\ (now - lastBackend) < cfg.detection.cooldown_seconds

\* gpio.py: cooldown > 0 and (now - self._last_trigger) < cooldown
AlarmCooldownActive(now, last, cooldown) == cooldown > 0 /\ (now - last) < cooldown

\* Faulty variant: a notifier cooldown test that ends the window one second early.
BackendCooldownShort(now, last, cooldown) == cooldown > 0 /\ (now - last) < cooldown - 1

\* pipeline.py: cooldown > 0 and (now - self._last_backend_trigger) < cooldown
BackendCooldownActive(now, last, cooldown) == cooldown > 0 /\ (now - last) < cooldown

\* Faulty variant: an is_enabled that forgets the released device handle.
IsEnabledConfigOnly == cfg.alarm.enabled

\* gpio.py: pulse_duration = duration or self._settings.duration_seconds
\* (None and 0 are both false)
PulseDuration(duration) ==
    IF duration.some /\ duration.val # 0 THEN duration.val
    ELSE cfg.alarm.duration_seconds

\* gpio.py: time.sleep(max(0.1, pulse_duration))
HoldPeriod(pulse_duration) ==
    IF pulse_duration > MinHold THEN pulse_duration ELSE MinHold

\* gpio.py: is_enabled
IsEnabled == cfg.alarm.enabled /\ device

(* ============================== state ================================= *)
\* The positions of a _pulse thread; "ended" counts the threads that returned
\* or died.
PulsePcs == {"act_check", "act_lock", "hold", "deact_check", "deact_lock", "ended"}

\* The /alarm handler; `holds` remembers that the line was switched on by
\* an activate() of /alarm and that neither deactivate() nor shutdown() has
\* been called since.
NewManual ==
    [pc |-> "idle", nowT |-> 0, seenT |-> 0, duration |-> None, holds |-> FALSE]

NewRequest ==
    [pc |-> "idle", tasks |-> <<>>, dets |-> <<>>, image |-> None,
     nowT |-> 0, seenT |-> 0, nowB |-> 0]

InFlight(r) == reqs[r].pc \notin {"idle", "done"}

\* No handler and no background task is between its first and last step.
Quiet == manual.pc = "idle" /\ \A r \in Requests : ~InFlight(r)

\* The first task of a BackgroundTasks list, or "done" when none is left.
StartOf(tasks) == IF tasks = <<>> THEN "done" ELSE Head(tasks)

\* BackgroundTasks.__call__: the tasks of one response run one after another.
Finish(rec) == [rec EXCEPT !.tasks = Tail(@), !.pc = StartOf(Tail(rec.tasks))]

\* Callers of trigger(): 0 is the /alarm handler, r > 0 the pipeline task
\* of request r.
Callers == {0} \cup Requests

TrigEntry(enabled, now, seen, started, duration, hold) ==
    [enabled |-> enabled, now |-> now, seen |-> seen, started |-> started,
     duration |-> duration, hold |-> hold]

Logged(log, by, entry) == [log EXCEPT ![by] = Append(@, entry)]

\* Faulty variant: a notifier that is reached only when the alarm is enabled.
AfterTriggerCoupled(rec) ==
    IF cfg.backend.event_url /\ cfg.alarm.enabled /\ device
    THEN [rec EXCEPT !.pc = "notify", !.nowB = clock]
    ELSE [rec EXCEPT !.tasks = Tail(@), !.pc = StartOf(Tail(rec.tasks))]

\* process_detection after self._alarm.trigger() returned:
\* if self._backend.event_url: self._maybe_post_backend(...), whose first
\* statement is now = time.time().
AfterTrigger(rec) ==
    IF cfg.backend.event_url
    THEN [rec EXCEPT !.pc = "notify", !.nowB = clock]
    ELSE Finish(rec)

\* threading.Thread(target=_pulse, daemon=True).start()
StartPulse(p) == [p EXCEPT !["act_check"] = @ + 1]

(* ============================ the clock =============================== *)
Tick ==
    /\ budget > 0
    /\ budget' = budget - 1
    /\ clock' = clock + 1
    /\ UNCHANGED <<cfg, env, device, active, line, lastTrigger, lastBackend, reqs,
                   manual, pulses, posts, telemetry, trigLog, notifyLog, raised>>

(* ===================== the detector's outputs ======================= *)
Det(l, c) == [label |-> l, confidence |-> c]

OneImage == <<[ch |-> "A", n |-> 4]>>

\* Encoded images around the cap of the backend payload, of one and of two
\* runs of characters.
Images ==
    {<<[ch |-> "A", n |-> k]>> :
        k \in {1, MaxEncodedImage - 1, MaxEncodedImage, MaxEncodedImage + 1, 300000}}
    \cup {<<[ch |-> "A", n |-> MaxEncodedImage - 1], [ch |-> "B", n |-> 2]>>,
          <<[ch |-> "A", n |-> 2], [ch |-> "B", n |-> 300000 - 2]>>,
          <<[ch |-> "A", n |-> MaxEncodedImage], [ch |-> "B", n |-> 1]>>}

DetectionLists == SeqsUpTo(Detection, MaxDets)

\* What detector.predict may return in a run: nothing or one detection at
\* the threshold ("few"), every list ("lists"), one firing detection.
DetectorOutputs(inputs) ==
    CASE inputs = "few" -> {<<>>, <<Det(<<"d">>, 1)>>}
      [] inputs = "lists" -> DetectionLists
      [] OTHER -> {<<Det(<<"d">>, MaxConf)>>}

\* What detector.encode_frame may return in a run.
EncodedFrames(inputs) == IF inputs = "images" THEN Images ELSE {OneImage}

\* What a POST /alarm request may carry as duration_seconds in a run: none,
\* or ("durations") also every duration up to the bound, 0 included.
SuppliedDurations(inputs) ==
    IF inputs = "durations" THEN {None} \cup {Some(d) : d \in 0..MaxDuration}
    ELSE {None}

(* ====================== router.py: run_inference ====================== *)
\* main.py: the pipeline is constructed when min_confidence >= 0.0
PipelinePresent == cfg.detection.min_confidence >= 0

\* Faulty variant: telemetry scheduled only for a response with detections.
ScheduledTasksGated(dets) ==
    IF dets # <<>>
    THEN (IF cfg.reporter THEN <<"publish">> ELSE <<>>)
         \o (IF cfg.detection.min_confidence >= 0 THEN <<"gate">> ELSE <<>>)
    ELSE <<>>

\* The tasks run_inference adds for a response, in the order it adds them.
ScheduledTasks(dets) ==
    (IF cfg.reporter THEN <<"publish">> ELSE <<>>)
    \o (IF PipelinePresent /\ dets # <<>> THEN <<"gate">> ELSE <<>>)

RunInference(r) ==
    /\ reqs[r].pc = "idle"
    /\ \A q \in Requests : q < r => reqs[q].pc # "idle"
    /\ r <= env.limit
    /\ budget > 0
    /\ budget' = budget - 1
    /\ env.serial => Quiet
    /\ \E dets \in DetectorOutputs(env.inputs), img \in EncodedFrames(env.inputs) :
          LET tasks == ScheduledTasks(dets)
          IN reqs' = [reqs EXCEPT ![r] =
                 [@ EXCEPT !.dets = dets, !.image = Some(img), !.tasks = tasks,
                           !.pc = StartOf(tasks)]]
    /\ UNCHANGED <<cfg, env, clock, device, active, line, lastTrigger, lastBackend,
                   manual, pulses, posts, telemetry, trigLog, notifyLog, raised>>

(* ================= telemetry.py: publish_inference ==================== *)
\* The reporter exists only when enabled with rest_url and api_key (main.py),
\* so neither early return is taken: the record is built and POSTed.
PublishSend(r) ==
    /\ reqs[r].pc = "publish"
    /\ telemetry' = [telemetry EXCEPT ![r] = Append(@,
           [detection_count |-> Len(reqs[r].dets), status |-> "inflight"])]
    /\ reqs' = [reqs EXCEPT ![r].pc = "publish_wait"]
    /\ UNCHANGED <<cfg, env, clock, device, active, line, lastTrigger, lastBackend,
                   manual, pulses, posts, trigLog, notifyLog, raised, budget>>

\* Faulty variant: a failed telemetry POST raises out of publish_inference
\* and ends the background tasks of the response.
PublishReturnRaising(r) ==
    /\ reqs[r].pc = "publish_wait"
    /\ \E result \in {"ok", "failed"}, i \in 1..Len(telemetry[r]) :
          /\ telemetry[r][i].status = "inflight"
          /\ telemetry' = [telemetry EXCEPT ![r][i].status = result]
          /\ reqs' = IF result = "failed"
                     THEN [reqs EXCEPT ![r] = [@ EXCEPT !.tasks = <<>>, !.pc = "done"]]
                     ELSE [reqs EXCEPT ![r] = Finish(@)]
    /\ UNCHANGED <<cfg, env, clock, device, active, line, lastTrigger, lastBackend,
                   manual, pulses, posts, trigLog, notifyLog, raised, budget>>

\* client.post / raise_for_status return or raise; except Exception logs.
PublishReturn(r) ==
    /\ reqs[r].pc = "publish_wait"
    /\ \E result \in {"ok", "failed"}, i \in 1..Len(telemetry[r]) :
          /\ telemetry[r][i].status = "inflight"
          /\ telemetry' = [telemetry EXCEPT ![r][i].status = result]
    /\ reqs' = [reqs EXCEPT ![r] = Finish(@)]
    /\ UNCHANGED <<cfg, env, clock, device, active, line, lastTrigger, lastBackend,
                   manual, pulses, posts, trigLog, notifyLog, raised, budget>>

(* ================= pipeline.py: process_detection ==================== *)
\* The gating decision and, on "fire", the call of self._alarm.trigger() up
\* to its reading of the clock (is_enabled, then now = time.time()).
Gate(r) ==
    /\ reqs[r].pc = "gate"
    /\ IF GateOutcome(reqs[r].dets, cfg.detection) # "fire"
       THEN /\ reqs' = [reqs EXCEPT ![r] = Finish(@)]
            /\ UNCHANGED trigLog
       ELSE IF ~IsEnabled
       THEN /\ reqs' = [reqs EXCEPT ![r] = AfterTrigger(@)]
            /\ trigLog' = Logged(trigLog, r, TrigEntry(FALSE, 0, 0, FALSE, None, 0))
       ELSE /\ reqs' = [reqs EXCEPT ![r] = [@ EXCEPT !.pc = "trig_check", !.nowT = clock]]
            /\ UNCHANGED trigLog
    /\ UNCHANGED <<cfg, env, clock, device, active, line, lastTrigger, lastBackend,
                   manual, pulses, posts, telemetry, notifyLog, raised, budget>>

(* ======================== gpio.py: trigger ============================ *)
\* if cooldown > 0 and (now - self._last_trigger) < cooldown: return
TriggerCheck(r) ==
    /\ reqs[r].pc = "trig_check"
    /\ IF AlarmCooldownActive(reqs[r].nowT, lastTrigger, cfg.alarm.cooldown_seconds)
       THEN /\ reqs' = [reqs EXCEPT ![r] = AfterTrigger(@)]
            /\ trigLog' = Logged(trigLog, r,
                                 TrigEntry(TRUE, reqs[r].nowT, lastTrigger, FALSE, None, 0))
       ELSE /\ reqs' = [reqs EXCEPT ![r] = [@ EXCEPT !.pc = "trig_set",
                                                     !.seenT = lastTrigger]]
            /\ UNCHANGED trigLog
    /\ UNCHANGED <<cfg, env, clock, device, active, line, lastTrigger, lastBackend,
                   manual, pulses, posts, telemetry, notifyLog, raised, budget>>

\* self._last_trigger = now; threading.Thread(target=_pulse).start()
TriggerSet(r) ==
    /\ reqs[r].pc = "trig_set"
    /\ lastTrigger' = reqs[r].nowT
    /\ pulses' = StartPulse(pulses)
    /\ trigLog' = Logged(trigLog, r,
                         TrigEntry(TRUE, reqs[r].nowT, reqs[r].seenT, TRUE, None,
                                   HoldPeriod(PulseDuration(None))))
    /\ reqs' = [reqs EXCEPT ![r] = AfterTrigger(@)]
    /\ UNCHANGED <<cfg, env, clock, device, active, line, lastBackend,
                   manual, posts, telemetry, notifyLog, raised, budget>>

(* ================ pipeline.py: _maybe_post_backend ==================== *)
\* Faulty variant: a notifier that performs the POST before it returns.
NotifyInline(r) ==
    /\ reqs[r].pc = "notify"
    /\ IF posts[r] # <<>>
       THEN /\ posts[r][Len(posts[r])].status # "inflight"
            /\ reqs' = [reqs EXCEPT ![r] = Finish(@)]
            /\ UNCHANGED <<lastBackend, posts, notifyLog>>
       ELSE IF BackendCooldownActive(reqs[r].nowB, lastBackend, cfg.detection.cooldown_seconds)
       THEN /\ notifyLog' = Logged(notifyLog, r,
                 [now |-> reqs[r].nowB, seen |-> lastBackend, posted |-> FALSE])
            /\ reqs' = [reqs EXCEPT ![r] = Finish(@)]
            /\ UNCHANGED <<lastBackend, posts>>
       ELSE /\ lastBackend' = reqs[r].nowB
            /\ notifyLog' = Logged(notifyLog, r,
                 [now |-> reqs[r].nowB, seen |-> lastBackend, posted |-> TRUE])
            /\ posts' = Logged(posts, r,
                 [status |-> "inflight",
                  payload |-> BackendPayload(reqs[r].dets, reqs[r].image)])
            /\ UNCHANGED reqs
    /\ UNCHANGED <<cfg, env, clock, device, active, line, lastTrigger,
                   manual, pulses, telemetry, trigLog, raised, budget>>

\* Faulty variant: a notifier whose suppressed calls restart the window.
NotifyExtending(r) ==
    /\ reqs[r].pc = "notify"
    /\ lastBackend' = reqs[r].nowB
    /\ IF BackendCooldownActive(reqs[r].nowB, lastBackend, cfg.detection.cooldown_seconds)
       THEN /\ notifyLog' = Logged(notifyLog, r,
                 [now |-> reqs[r].nowB, seen |-> lastBackend, posted |-> FALSE])
            /\ UNCHANGED posts
       ELSE /\ notifyLog' = Logged(notifyLog, r,
                 [now |-> reqs[r].nowB, seen |-> lastBackend, posted |-> TRUE])
            /\ posts' = Logged(posts, r,
                 [status |-> "inflight",
                  payload |-> BackendPayload(reqs[r].dets, reqs[r].image)])
    /\ reqs' = [reqs EXCEPT ![r] = Finish(@)]
    /\ UNCHANGED <<cfg, env, clock, device, active, line, lastTrigger,
                   manual, pulses, telemetry, trigLog, raised, budget>>

\* with self._session_lock: check, return or record; then start the thread.
\* The lock makes the check and the update one step.
Notify(r) ==
    /\ reqs[r].pc = "notify"
    /\ IF BackendCooldownActive(reqs[r].nowB, lastBackend, cfg.detection.cooldown_seconds)
       THEN /\ notifyLog' = Logged(notifyLog, r,
                 [now |-> reqs[r].nowB, seen |-> lastBackend, posted |-> FALSE])
            /\ UNCHANGED <<lastBackend, posts>>
       ELSE /\ lastBackend' = reqs[r].nowB
            /\ notifyLog' = Logged(notifyLog, r,
                 [now |-> reqs[r].nowB, seen |-> lastBackend, posted |-> TRUE])
            /\ posts' = Logged(posts, r,
                 [status |-> "inflight",
                  payload |-> BackendPayload(reqs[r].dets, reqs[r].image)])
    /\ reqs' = [reqs EXCEPT ![r] = Finish(@)]
    /\ UNCHANGED <<cfg, env, clock, device, active, line, lastTrigger,
                   manual, pulses, telemetry, trigLog, raised, budget>>

\* Faulty variant: a failed POST gives the cooldown window back.
PostFinishRollback(r, i) ==
    /\ i \in 1..Len(posts[r])
    /\ posts[r][i].status = "inflight"
    /\ \E result \in {"ok", "failed"} :
          /\ posts' = [posts EXCEPT ![r][i].status = result]
          /\ lastBackend' = IF result = "failed" THEN 0 ELSE lastBackend
    /\ UNCHANGED <<cfg, env, clock, device, active, line, lastTrigger,
                   reqs, manual, pulses, telemetry, trigLog, notifyLog, raised, budget>>

\* Faulty variant: a failed POST is attempted again.
PostFinishRetry(r, i) ==
    /\ i \in 1..Len(posts[r])
    /\ posts[r][i].status = "inflight"
    /\ \E result \in {"ok", "failed"} :
          posts' = IF result = "failed" /\ Len(posts[r]) < 2
                   THEN [posts EXCEPT ![r] = Append([@ EXCEPT ![i].status = result],
                                                    [posts[r][i] EXCEPT !.status = "inflight"])]
                   ELSE [posts EXCEPT ![r][i].status = result]
    /\ UNCHANGED <<cfg, env, clock, device, active, line, lastTrigger, lastBackend,
                   reqs, manual, pulses, telemetry, trigLog, notifyLog, raised, budget>>

\* _post_backend: client.post / raise_for_status return or raise; the
\* except clause logs and the thread ends.
PostFinish(r, i) ==
    /\ i \in 1..Len(posts[r])
    /\ posts[r][i].status = "inflight"
    /\ \E result \in {"ok", "failed"} :
          posts' = [posts EXCEPT ![r][i].status = result]
    /\ UNCHANGED <<cfg, env, clock, device, active, line, lastTrigger, lastBackend,
                   reqs, manual, pulses, telemetry, trigLog, notifyLog, raised, budget>>

(* ==================== gpio.py: activate / deactivate ================== *)
\* Faulty variant: an activate() that switches the line but forgets _active.
ActivateLockedForgetful ==
    IF active THEN UNCHANGED <<active, line, raised>>
    ELSE IF ~device
    THEN raised' = raised \cup {"activate"} /\ UNCHANGED <<active, line>>
    ELSE line' = TRUE /\ active' = FALSE /\ UNCHANGED raised

\* The body of activate() under self._lock.  self._device.on() on a handle
\* that shutdown() has set to None raises AttributeError.
ActivateLocked ==
    IF active THEN UNCHANGED <<active, line, raised>>
    ELSE IF ~device
    THEN raised' = raised \cup {"activate"} /\ UNCHANGED <<active, line>>
    ELSE line' = TRUE /\ active' = TRUE /\ UNCHANGED raised

\* The body of deactivate() under self._lock.
DeactivateLocked ==
    IF ~active THEN UNCHANGED <<active, line, raised>>
    ELSE IF ~device
    THEN raised' = raised \cup {"deactivate"} /\ UNCHANGED <<active, line>>
    ELSE line' = FALSE /\ active' = FALSE /\ UNCHANGED raised

\* activate() raises exactly when it reaches on() with the handle gone.
ActivateRaises == ~active /\ ~device

(* ===================== router.py: control_alarm ======================= *)
\* The handler runs on the event loop: one call at a time.  Its first step
\* is the is_enabled test of the method it calls (and, for trigger, the
\* reading of the clock).
ControlAlarm ==
    /\ manual.pc = "idle"
    /\ budget > 0
    /\ budget' = budget - 1
    /\ env.serial => Quiet
    /\ \E action \in {"activate", "deactivate", "pulse"},
          duration \in SuppliedDurations(env.inputs) :
          IF ~IsEnabled
          THEN /\ UNCHANGED manual
               /\ trigLog' = IF action = "pulse"
                             THEN Logged(trigLog, 0, TrigEntry(FALSE, 0, 0, FALSE, None, 0))
                             ELSE trigLog
          ELSE /\ manual' = [manual EXCEPT
                      !.pc = CASE action = "activate" -> "act_lock"
                               [] action = "deactivate" -> "deact_lock"
                               [] OTHER -> "trig_check",
                      !.nowT = IF action = "pulse" THEN clock ELSE 0,
                      !.duration = IF action = "pulse" THEN duration ELSE None,
                      !.holds = IF action = "deactivate" THEN FALSE ELSE @]
               /\ UNCHANGED trigLog
    /\ UNCHANGED <<cfg, env, clock, device, active, line, lastTrigger, lastBackend,
                   reqs, pulses, posts, telemetry, notifyLog, raised>>

\* Faulty variant: an activate() that cannot enter its locked body while a
\* pulse sleeps (as if _pulse kept the lock for the hold period).
ManualActivateBehindPulse ==
    /\ manual.pc = "act_lock"
    /\ pulses["hold"] = 0
    /\ ActivateLocked
    /\ manual' = [manual EXCEPT !.pc = "idle", !.holds = @ \/ (~active /\ device)]
    /\ UNCHANGED <<cfg, env, clock, device, lastTrigger, lastBackend, reqs, pulses,
                   posts, telemetry, trigLog, notifyLog, budget>>

ManualActivate ==
    /\ manual.pc = "act_lock"
    /\ ActivateLocked
    /\ manual' = [manual EXCEPT !.pc = "idle", !.holds = @ \/ (~active /\ device)]
    /\ UNCHANGED <<cfg, env, clock, device, lastTrigger, lastBackend, reqs, pulses,
                   posts, telemetry, trigLog, notifyLog, budget>>

ManualDeactivate ==
    /\ manual.pc = "deact_lock"
    /\ DeactivateLocked
    /\ manual' = [manual EXCEPT !.pc = "idle"]
    /\ UNCHANGED <<cfg, env, clock, device, lastTrigger, lastBackend, reqs, pulses,
                   posts, telemetry, trigLog, notifyLog, budget>>

ManualTriggerCheck ==
    /\ manual.pc = "trig_check"
    /\ IF AlarmCooldownActive(manual.nowT, lastTrigger, cfg.alarm.cooldown_seconds)
       THEN /\ manual' = [manual EXCEPT !.pc = "idle", !.nowT = 0, !.duration = None]
            /\ trigLog' = Logged(trigLog, 0,
                                 TrigEntry(TRUE, manual.nowT, lastTrigger, FALSE,
                                           manual.duration, 0))
       ELSE /\ manual' = [manual EXCEPT !.pc = "trig_set", !.seenT = lastTrigger]
            /\ UNCHANGED trigLog
    /\ UNCHANGED <<cfg, env, clock, device, active, line, lastTrigger, lastBackend,
                   reqs, pulses, posts, telemetry, notifyLog, raised, budget>>

ManualTriggerSet ==
    /\ manual.pc = "trig_set"
    /\ lastTrigger' = manual.nowT
    /\ pulses' = StartPulse(pulses)
    /\ trigLog' = Logged(trigLog, 0,
                         TrigEntry(TRUE, manual.nowT, manual.seenT, TRUE, manual.duration,
                                   HoldPeriod(PulseDuration(manual.duration))))
    /\ manual' = [manual EXCEPT !.pc = "idle", !.nowT = 0, !.seenT = 0,
                                 !.duration = None]
    /\ UNCHANGED <<cfg, env, clock, device, active, line, lastBackend, reqs,
                   posts, telemetry, notifyLog, raised, budget>>

(* ==================== gpio.py: trigger._pulse ========================= *)
MovePulse(from, to) ==
    pulses' = [pulses EXCEPT ![from] = @ - 1, ![to] = @ + 1]

EndPulse(from) == MovePulse(from, "ended")

\* self.activate(): the is_enabled test
PulseActivateCheck ==
    /\ pulses["act_check"] > 0
    /\ IF IsEnabled THEN MovePulse("act_check", "act_lock")
                    ELSE MovePulse("act_check", "hold")
    /\ UNCHANGED <<cfg, env, clock, device, active, line, lastTrigger, lastBackend,
                   reqs, manual, posts, telemetry, trigLog, notifyLog, raised, budget>>

\* self.activate(): the locked body; an exception skips the sleep and
\* enters the finally clause.
PulseActivate ==
    /\ pulses["act_lock"] > 0
    /\ ActivateLocked
    /\ IF ActivateRaises THEN MovePulse("act_lock", "deact_check")
                         ELSE MovePulse("act_lock", "hold")
    /\ UNCHANGED <<cfg, env, clock, device, lastTrigger, lastBackend, reqs, manual,
                   posts, telemetry, trigLog, notifyLog, budget>>

\* time.sleep(max(0.1, pulse_duration)) returns
PulseHold ==
    /\ pulses["hold"] > 0
    /\ MovePulse("hold", "deact_check")
    /\ UNCHANGED <<cfg, env, clock, device, active, line, lastTrigger, lastBackend,
                   reqs, manual, posts, telemetry, trigLog, notifyLog, raised, budget>>

\* finally: self.deactivate(): the is_enabled test
PulseDeactivateCheck ==
    /\ pulses["deact_check"] > 0
    /\ IF IsEnabled THEN MovePulse("deact_check", "deact_lock")
                    ELSE EndPulse("deact_check")
    /\ UNCHANGED <<cfg, env, clock, device, active, line, lastTrigger, lastBackend,
                   reqs, manual, posts, telemetry, trigLog, notifyLog, raised, budget>>

\* finally: self.deactivate(): the locked body; the thread ends either way.
PulseDeactivate ==
    /\ pulses["deact_lock"] > 0
    /\ DeactivateLocked
    /\ EndPulse("deact_lock")
    /\ UNCHANGED <<cfg, env, clock, device, lastTrigger, lastBackend, reqs, manual,
                   posts, telemetry, trigLog, notifyLog, budget>>

(* ========================= gpio.py: shutdown ========================== *)
\* if self._device is not None: close(), finally self._device = None.
\* Closing the device releases the pin, which stops driving the line.
Shutdown ==
    /\ budget > 0
    /\ budget' = budget - 1
    /\ device' = FALSE
    /\ line' = IF device THEN FALSE ELSE line
    /\ manual' = [manual EXCEPT !.holds = FALSE]
    /\ UNCHANGED <<cfg, env, clock, active, lastTrigger, lastBackend, reqs,
                   pulses, posts, telemetry, trigLog, notifyLog, raised>>

(* ======================= construction and Next ======================== *)
\* time.time() is seconds since the epoch: at the first call it exceeds
\* every configured cooldown, while both timestamps start at 0.0.
StartTime == MaxCooldown

AlarmConfigs ==
    [enabled : BOOLEAN, cooldown_seconds : 0..MaxCooldown,
     duration_seconds : {DefaultDuration}]

Settings(a, mc, tl, dc, url, rep) ==
    [alarm |-> a,
     detection |-> [min_confidence |-> mc, target_labels |-> tl,
                    cooldown_seconds |-> dc],
     backend |-> [event_url |-> url],
     reporter |-> rep]

\* Allow-lists: none, one in upper case, one in lower case, two labels.
TargetLists == {<<>>, << <<"D">> >>, << <<"c">> >>, << <<"c">>, <<"d">> >>}

\* The state after create_app(): AlarmController.__init__ leaves a device
\* handle exactly when the alarm stays enabled.
InitWith(c, e, b) ==
    /\ cfg = c
    /\ env = e
    /\ budget = b
    /\ clock = StartTime
    /\ device = c.alarm.enabled
    /\ active = FALSE
    /\ line = FALSE
    /\ lastTrigger = 0
    /\ lastBackend = 0
    /\ reqs = [r \in Requests |-> NewRequest]
    /\ manual = NewManual
    /\ pulses = [p \in PulsePcs |-> 0]
    /\ posts = [r \in Requests |-> <<>>]
    /\ telemetry = [r \in Requests |-> <<>>]
    /\ trigLog = [k \in Callers |-> <<>>]
    /\ notifyLog = [r \in Requests |-> <<>>]
    /\ raised = {}

\* Every alarm and notifier configuration; requests overlap freely; the
\* detector returns nothing or one detection at the threshold.
InitConcurrent(serial) ==
    \E a \in AlarmConfigs, dc \in 0..MaxCooldown, url \in BOOLEAN, rep \in BOOLEAN :
        InitWith(Settings(a, 1, <<>>, dc, url, rep),
                 [inputs |-> "few",
                  limit |-> MaxInference,
                  serial |-> serial],
                 MaxEvents)

\* Every threshold and allow-list against every detection list; one
\* inference request, handlers one at a time.
InitGating ==
    \E en \in BOOLEAN, mc \in Confs, tl \in TargetLists :
        InitWith(Settings([enabled |-> en, cooldown_seconds |-> 1,
                          duration_seconds |-> DefaultDuration], mc, tl, 1, TRUE, TRUE),
                 [inputs |-> "lists",
                  limit |-> 1,
                  serial |-> TRUE],
                 MaxEvents - 1)

\* Every image against one firing detection; one inference request.
InitPayload ==
    InitWith(Settings([enabled |-> TRUE, cooldown_seconds |-> 1,
                          duration_seconds |-> DefaultDuration], 1, <<>>, 1, TRUE, FALSE),
             [inputs |-> "images",
              limit |-> 1,
              serial |-> TRUE],
             MaxEvents)

\* Every default and every supplied pulse duration; no cooldown; one
\* inference request, handlers one at a time.
InitDurations ==
    \E dur \in 0..MaxDuration \cup {DefaultDuration} :
        InitWith(Settings([enabled |-> TRUE, cooldown_seconds |-> 0,
                           duration_seconds |-> dur], 1, <<>>, 1, FALSE, FALSE),
                 [inputs |-> "durations",
                  limit |-> 1,
                  serial |-> TRUE],
                 MaxEvents - 1)

\* An enabled actuator with and without cooldown, backend and telemetry
\* configured; requests overlap freely.
InitLive ==
    \E cd \in {0, 1} :
        InitWith(Settings([enabled |-> TRUE, cooldown_seconds |-> cd,
                          duration_seconds |-> DefaultDuration], 1, <<>>, 1, TRUE, TRUE),
                 [inputs |-> "few",
                  limit |-> MaxInference,
                  serial |-> FALSE],
                 MaxEvents)

Init == InitConcurrent(FALSE)

InitSeq == InitConcurrent(TRUE)

InitGate == InitGating \/ InitPayload \/ InitDurations

Next ==
    \/ Tick
    \/ \E r \in Requests : RunInference(r)
    \/ \E r \in Requests : PublishSend(r)
    \/ \E r \in Requests : PublishReturn(r)
    \/ \E r \in Requests : Gate(r)
    \/ \E r \in Requests : TriggerCheck(r)
    \/ \E r \in Requests : TriggerSet(r)
    \/ \E r \in Requests : Notify(r)
    \/ \E r \in Requests : \E i \in 1..Len(posts[r]) : PostFinish(r, i)
    \/ ControlAlarm
    \/ ManualActivate
    \/ ManualDeactivate
    \/ ManualTriggerCheck
    \/ ManualTriggerSet
    \/ PulseActivateCheck
    \/ PulseActivate
    \/ PulseHold
    \/ PulseDeactivateCheck
    \/ PulseDeactivate
    \/ Shutdown

Spec == Init /\ [][Next]_vars

SpecSeq == InitSeq /\ [][Next]_vars

SpecGate == InitGate /\ [][Next]_vars

\* Every thread and every background task that can take a step eventually
\* takes it (threads are scheduled); requests, clock ticks and shutdown are
\* up to the environment, and so is the time a remote endpoint takes to
\* answer and the time a pulse sleeps.
ThreadFairness ==
    /\ \A r \in Requests :
          /\ WF_vars(PublishSend(r))
          /\ WF_vars(Gate(r))
          /\ WF_vars(TriggerCheck(r))
          /\ WF_vars(TriggerSet(r))
          /\ WF_vars(Notify(r))
    /\ WF_vars(ManualActivate)
    /\ WF_vars(ManualDeactivate)
    /\ WF_vars(ManualTriggerCheck)
    /\ WF_vars(ManualTriggerSet)
    /\ WF_vars(PulseActivateCheck)
    /\ WF_vars(PulseActivate)
    /\ WF_vars(PulseDeactivateCheck)
    /\ WF_vars(PulseDeactivate)

\* In addition both POSTs return or time out and time.sleep returns.
Fairness ==
    /\ ThreadFairness
    /\ WF_vars(PulseHold)
    /\ \A r \in Requests :
          /\ WF_vars(PublishReturn(r))
          /\ WF_vars(\E i \in 1..Len(posts[r]) : PostFinish(r, i))

SpecLive == InitLive /\ [][Next]_vars /\ Fairness

\* The service while the remote endpoints and the pulses may take
\* arbitrarily long.
SpecStall == InitLive /\ [][Next]_vars /\ ThreadFairness

(* ============================== claims ================================ *)
\* A request whose response exists (run_inference has run).
Arrived(r) == reqs[r].pc # "idle"

Done(r) == reqs[r].pc = "done"

\* The position of the detection gating is about: maximal confidence, and
\* the earliest such.
IsSelected(dets, i) ==
    /\ i \in 1..Len(dets)
    /\ \A j \in 1..Len(dets) : dets[j].confidence <= dets[i].confidence
    /\ \A j \in 1..(i - 1) : dets[j].confidence < dets[i].confidence

\* Two characters that differ at most in case.
SameLetter(x, y) ==
    \/ x = y
    \/ {x, y} = {"d", "D"}
    \/ {x, y} = {"c", "C"}

EqualIgnoringCase(a, b) ==
    /\ Len(a) = Len(b)
    /\ \A i \in 1..Len(a) : SameLetter(a[i], b[i])

InAllowList(label) ==
    \E k \in 1..Len(cfg.detection.target_labels) :
        EqualIgnoringCase(label, cfg.detection.target_labels[k])

\* A result that gating lets through.
Qualifies(dets) ==
    \E i \in 1..Len(dets) :
        /\ IsSelected(dets, i)
        /\ dets[i].confidence >= cfg.detection.min_confidence
        /\ cfg.detection.target_labels = <<>> \/ InAllowList(dets[i].label)

\* Nothing was started for request r: no trigger() call, no notifier call,
\* no POST thread.
NothingStarted(r) ==
    /\ trigLog[r] = <<>>
    /\ notifyLog[r] = <<>>
    /\ posts[r] = <<>>
    /\ reqs[r].pc \notin {"trig_check", "trig_set", "notify"}

\* A throttle that lets a call reading `now` pass when it last recorded `seen`.
Open(now, seen, cooldown) == cooldown = 0 \/ now - seen >= cooldown

RECURSIVE CountStarted(_)
CountStarted(log) ==
    IF log = <<>> THEN 0
    ELSE (IF Head(log).started THEN 1 ELSE 0) + CountStarted(Tail(log))

RECURSIVE SumOver(_, _)
SumOver(f, S) ==
    IF S = {} THEN 0
    ELSE LET x == CHOOSE y \in S : TRUE IN f[x] + SumOver(f, S \ {x})

\* The _pulse threads that exist or have existed.
PulseThreads == SumOver(pulses, PulsePcs)

\* The trigger() calls that went on to start a thread.
AcceptedTriggers == SumOver([k \in Callers |-> CountStarted(trigLog[k])], Callers)

\* C1: for every inference result whose maximum detection confidence is
\* strictly below min_confidence, process_detection calls no trigger() and
\* starts no backend POST, whatever the two throttles hold.
C1_BelowThresholdStartsNothing ==
    \A r \in Requests :
        (/\ Arrived(r)
         /\ \A i \in 1..Len(reqs[r].dets) :
                reqs[r].dets[i].confidence < cfg.detection.min_confidence)
        => NothingStarted(r)

\* A two-detection result below the threshold was processed to the end
\* after a manual pulse had been accepted (the actuator throttle is set).
C1_Witness ==
    \E r \in Requests :
        /\ Done(r)
        /\ Len(reqs[r].dets) = 2
        /\ \A i \in 1..2 : reqs[r].dets[i].confidence < cfg.detection.min_confidence
        /\ reqs[r].dets[1].confidence > 0
        /\ CountStarted(trigLog[0]) = 1
        /\ lastTrigger > 0

\* C2: for every inference result whose selected (maximum-confidence)
\* detection has a label that is not, ignoring case, in a non-empty
\* allow-list, process_detection calls no trigger() and starts no POST, even
\* if that confidence reaches min_confidence and a lower detection is allowed.
C2_DisallowedLabelStartsNothing ==
    \A r \in Requests :
        (/\ Arrived(r)
         /\ cfg.detection.target_labels # <<>>
         /\ \E i \in 1..Len(reqs[r].dets) :
                /\ IsSelected(reqs[r].dets, i)
                /\ ~InAllowList(reqs[r].dets[i].label))
        => NothingStarted(r)

\* A processed result whose top detection is confident but not allowed while
\* its second, lower detection carries an allowed label.
C2_Witness ==
    \E r \in Requests :
        /\ Done(r)
        /\ Len(reqs[r].dets) = 2
        /\ cfg.detection.target_labels # <<>>
        /\ reqs[r].dets[1].confidence >= cfg.detection.min_confidence
        /\ reqs[r].dets[1].confidence > reqs[r].dets[2].confidence
        /\ ~InAllowList(reqs[r].dets[1].label)
        /\ InAllowList(reqs[r].dets[2].label)

\* Every trigger() call that has returned, as <<caller, index>>.
TriggerCalls == {<<k, i>> \in Callers \X (1..MaxEvents) : i <= Len(trigLog[k])}

TriggerCall(c) == trigLog[c[1]][c[2]]

\* Every _maybe_post_backend call that has returned.
NotifyCalls == {<<r, i>> \in Requests \X (1..MaxEvents) : i <= Len(notifyLog[r])}

NotifyCall(c) == notifyLog[c[1]][c[2]]

Distance(x, y) == IF x >= y THEN x - y ELSE y - x

\* The trigger() call of request r found the actuator enabled and its
\* throttle open.
ActuatorOpenFor(r) ==
    /\ Len(trigLog[r]) = 1
    /\ trigLog[r][1].enabled
    /\ Open(trigLog[r][1].now, trigLog[r][1].seen, cfg.alarm.cooldown_seconds)

\* The notifier call of request r found its throttle open.
NotifierOpenFor(r) ==
    /\ Len(notifyLog[r]) = 1
    /\ Open(notifyLog[r][1].now, notifyLog[r][1].seen, cfg.detection.cooldown_seconds)

StartedOnePulse(r) == Len(trigLog[r]) = 1 /\ trigLog[r][1].started

StartedOnePost(r) ==
    /\ Len(notifyLog[r]) = 1
    /\ notifyLog[r][1].posted
    /\ Len(posts[r]) = 1

\* C3: a qualifying result processed while the actuator is enabled, the
\* backend URL is configured and both throttles are open starts exactly one
\* pulse thread and exactly one backend POST; every pulse thread comes from
\* one accepted trigger() call.
C3_QualifyingStartsOnePulseOnePost ==
    /\ PulseThreads = AcceptedTriggers
    /\ \A r \in Requests :
          (Done(r) /\ Qualifies(reqs[r].dets))
          => /\ Len(trigLog[r]) = 1
             /\ cfg.backend.event_url => Len(notifyLog[r]) = 1
             /\ (ActuatorOpenFor(r) /\ cfg.backend.event_url /\ NotifierOpenFor(r))
                => (StartedOnePulse(r) /\ StartedOnePost(r))

\* A request was processed to the end and started both, with a cooldown
\* configured on both throttles.
C3_Witness ==
    \E r \in Requests :
        /\ Done(r)
        /\ cfg.alarm.cooldown_seconds > 0
        /\ cfg.detection.cooldown_seconds > 0
        /\ StartedOnePulse(r)
        /\ StartedOnePost(r)
        /\ PulseThreads = 1

\* Two trigger() calls on an enabled actuator whose clock readings are less
\* than a positive cooldown apart.
SameWindow(a, b) ==
    /\ a # b
    /\ TriggerCall(a).enabled
    /\ TriggerCall(b).enabled
    /\ cfg.alarm.cooldown_seconds > 0
    /\ Distance(TriggerCall(a).now, TriggerCall(b).now) < cfg.alarm.cooldown_seconds

TriggerOpen(a) ==
    Open(TriggerCall(a).now, TriggerCall(a).seen, cfg.alarm.cooldown_seconds)

\* A step in which a trigger() call returns without starting a pulse.
SuppressedTriggerReturns ==
    \E k \in Callers :
        /\ Len(trigLog'[k]) = Len(trigLog[k]) + 1
        /\ ~trigLog'[k][Len(trigLog'[k])].started

\* C4: with handlers running one after another, of two trigger() calls on an
\* enabled actuator less than cooldown_seconds > 0 apart at most one starts
\* a pulse, and exactly one when either found the throttle open; a call that
\* is suppressed returns without raising and without changing
\* lastTriggerTime, active or the set of pulse threads.
C4_SecondTriggerIsNoOp ==
    /\ [](/\ PulseThreads = AcceptedTriggers
          /\ \A a \in TriggerCalls, b \in TriggerCalls :
                SameWindow(a, b)
                => /\ ~(TriggerCall(a).started /\ TriggerCall(b).started)
                   /\ (TriggerOpen(a) \/ TriggerOpen(b))
                      => (TriggerCall(a).started \/ TriggerCall(b).started))
    /\ [][SuppressedTriggerReturns
          => /\ lastTrigger' = lastTrigger
             /\ active' = active
             /\ pulses' = pulses
             /\ raised' = raised]_vars

\* Two calls in one window have returned: one started the only pulse thread,
\* the other was suppressed.
C4_Witness ==
    \E a \in TriggerCalls, b \in TriggerCalls :
        /\ SameWindow(a, b)
        /\ TriggerCall(a).started
        /\ ~TriggerCall(b).started
        /\ PulseThreads = 1
        /\ Quiet

\* C5: under any interleaving of concurrent trigger() calls whose clock
\* readings fall within one cooldown window, at most one starts a pulse.
C5_AtMostOnePulsePerWindow ==
    \A a \in TriggerCalls, b \in TriggerCalls :
        SameWindow(a, b) => ~(TriggerCall(a).started /\ TriggerCall(b).started)

\* C6: with cooldown_seconds > 0, no two backend POSTs are started by
\* notifier calls whose clock readings are less than cooldown_seconds apart,
\* under any interleaving; a POST thread exists exactly for each call that
\* passed.
C6_NotifierThrottleAtomic ==
    /\ \A r \in Requests : Len(posts[r]) = Cardinality({c \in NotifyCalls :
                                  c[1] = r /\ NotifyCall(c).posted})
    /\ \A a \in NotifyCalls, b \in NotifyCalls :
          (/\ a # b
           /\ cfg.detection.cooldown_seconds > 0
           /\ NotifyCall(a).posted
           /\ NotifyCall(b).posted)
          => Distance(NotifyCall(a).now, NotifyCall(b).now)
                >= cfg.detection.cooldown_seconds

\* Two overlapping process_detection calls read the clock within one window:
\* the second read it while the first was still running; one posted, the
\* other was suppressed.
C6_Witness ==
    \E a \in NotifyCalls, b \in NotifyCalls :
        /\ a # b
        /\ cfg.detection.cooldown_seconds > 0
        /\ Distance(NotifyCall(a).now, NotifyCall(b).now) < cfg.detection.cooldown_seconds
        /\ NotifyCall(a).posted
        /\ ~NotifyCall(b).posted
        /\ NotifyCall(b).seen = NotifyCall(a).now
        /\ NotifyCall(a).now > NotifyCall(b).now

\* The trigger() call of request r started no pulse: the actuator was
\* disabled, or inside its cooldown window.
ActuatorIdleFor(r) ==
    /\ Len(trigLog[r]) = 1
    /\ ~trigLog[r][1].started
    /\ ~trigLog[r][1].enabled \/ ~Open(trigLog[r][1].now, trigLog[r][1].seen,
                                      cfg.alarm.cooldown_seconds)

\* C7: when the actuator is disabled or inside its cooldown window, a
\* qualifying detection that finds the backend URL configured and the
\* notifier throttle open still starts a backend POST.
C7_NotifierIndependentOfActuator ==
    \A r \in Requests :
        (/\ Done(r)
         /\ Qualifies(reqs[r].dets)
         /\ cfg.backend.event_url
         /\ ~StartedOnePulse(r))
        => /\ ActuatorIdleFor(r)
           /\ Len(notifyLog[r]) = 1
           /\ NotifierOpenFor(r) => StartedOnePost(r)

\* A request found the actuator enabled but inside its cooldown window and
\* posted; the controller is disabled by now (shutdown).
C7_Witness ==
    \E r \in Requests :
        /\ Done(r)
        /\ cfg.alarm.enabled
        /\ Len(trigLog[r]) = 1
        /\ trigLog[r][1].enabled
        /\ ~trigLog[r][1].started
        /\ StartedOnePost(r)
        /\ ~device

\* C8: when the backend URL is not configured, or the notifier is inside its
\* cooldown window, a qualifying detection that finds the actuator enabled
\* and its throttle open still starts a pulse, and no backend POST.
C8_ActuatorIndependentOfNotifier ==
    \A r \in Requests :
        (/\ Done(r)
         /\ Qualifies(reqs[r].dets)
         /\ ~cfg.backend.event_url \/ (Len(notifyLog[r]) = 1 /\ ~NotifierOpenFor(r)))
        => /\ Len(trigLog[r]) = 1
           /\ posts[r] = <<>>
           /\ ~cfg.backend.event_url => notifyLog[r] = <<>>
           /\ (trigLog[r][1].enabled
               /\ Open(trigLog[r][1].now, trigLog[r][1].seen, cfg.alarm.cooldown_seconds))
              => StartedOnePulse(r)

\* A request was suppressed by the notifier cooldown and started a pulse
\* after the actuator cooldown of an earlier pulse had run out.
C8_Witness ==
    \E r \in Requests :
        /\ Done(r)
        /\ cfg.backend.event_url
        /\ Len(notifyLog[r]) = 1
        /\ ~notifyLog[r][1].posted
        /\ StartedOnePulse(r)
        /\ trigLog[r][1].seen > 0

\* C9: with a reporter constructed, every inference result has exactly one
\* telemetry publish, scheduled first or already called, with zero
\* detections and whatever gating decides; the record counts the detections.
C9_TelemetryForEveryResult ==
    \A r \in Requests :
        (Arrived(r) /\ cfg.reporter)
        => IF reqs[r].pc = "publish"
           THEN telemetry[r] = <<>> /\ Head(reqs[r].tasks) = "publish"
           ELSE /\ Len(telemetry[r]) = 1
                /\ telemetry[r][1].detection_count = Len(reqs[r].dets)
                /\ reqs[r].pc = "publish_wait" <=> telemetry[r][1].status = "inflight"

\* Telemetry was published for a result without detections and the request
\* is over.
C9_Witness ==
    \E r \in Requests :
        /\ Done(r)
        /\ reqs[r].dets = <<>>
        /\ Len(telemetry[r]) = 1
        /\ telemetry[r][1].status = "ok"

\* The character at position i of a string of runs.
RECURSIVE CharAt(_, _)
CharAt(s, i) == IF i <= Head(s).n THEN Head(s).ch ELSE CharAt(Tail(s), i - Head(s).n)

\* The first and last position of every run of a string.
RECURSIVE RunEnds(_, _)
RunEnds(s, from) ==
    IF s = <<>> THEN {}
    ELSE {from + 1, from + Head(s).n} \cup RunEnds(Tail(s), from + Head(s).n)

\* p is the first k characters of s.  Both are constant between run ends, so
\* comparing at the run ends of both compares everywhere.
IsPrefixOfLength(p, s, k) ==
    /\ StrLen(p) = k
    /\ k <= StrLen(s)
    /\ \A i \in (RunEnds(p, 0) \cup RunEnds(s, 0)) \cap (1..k) : CharAt(p, i) = CharAt(s, i)

\* C10: the encoded image of every backend payload is the first
\* min(n, 131072) characters of the n-character image handed to the
\* notifier: a prefix of it, never longer than 131072 characters.
C10_ImageTruncatedToPrefix ==
    \A r \in Requests : \A i \in 1..Len(posts[r]) :
        LET given == reqs[r].image.val
            sent == posts[r][i].payload.encoded_image
            n == StrLen(given)
        IN /\ reqs[r].image.some
           /\ sent.some
           /\ StrLen(sent.val) <= 131072
           /\ IsPrefixOfLength(sent.val, given, IF n <= 131072 THEN n ELSE 131072)

\* An image of 300000 characters, in two runs, was posted as 131072.
C10_Witness ==
    \E r \in Requests :
        /\ Len(posts[r]) = 1
        /\ StrLen(reqs[r].image.val) = 300000
        /\ Len(reqs[r].image.val) = 2
        /\ StrLen(posts[r][1].payload.encoded_image.val) = 131072
        /\ Len(posts[r][1].payload.encoded_image.val) = 2

\* A step in which a backend POST attempt fails.
PostFails ==
    \E r \in Requests : \E i \in 1..Len(posts[r]) :
        /\ posts[r][i].status = "inflight"
        /\ posts'[r][i].status = "failed"

\* The POST started by notifier call a has failed.
FailedAttempt(a) ==
    /\ NotifyCall(a).posted
    /\ Len(posts[a[1]]) >= 1
    /\ posts[a[1]][1].status = "failed"

\* Of two notifier calls, the later reading within the window of a POST
\* that was started (and may have failed) started none.
C11_NoPostAfterFailedAttempt ==
    /\ \A a \in NotifyCalls : NotifyCall(a).posted => Len(posts[a[1]]) = 1
    /\ \A a \in NotifyCalls, b \in NotifyCalls :
          (/\ a # b
           /\ cfg.detection.cooldown_seconds > 0
           /\ FailedAttempt(a)
           /\ NotifyCall(b).now >= NotifyCall(a).now
           /\ NotifyCall(b).now - NotifyCall(a).now < cfg.detection.cooldown_seconds)
          => (~NotifyCall(b).posted /\ posts[b[1]] = <<>>)

\* C11: a failing backend POST changes nothing but its own outcome: nothing
\* is raised into process_detection or its caller and the notifier's
\* timestamp, recorded when the attempt was started, stays; so a notifier
\* call reading the clock within cooldown_seconds after a failed attempt
\* starts no POST.
C11_FailedPostKeepsCooldown ==
    /\ []C11_NoPostAfterFailedAttempt
    /\ [][PostFails => UNCHANGED <<reqs, manual, raised, lastBackend, lastTrigger,
                                   notifyLog, trigLog, pulses>>]_vars

\* A POST failed, and a later call inside its window was suppressed after
\* the failure: it saw the timestamp of the failed attempt.
C11_Witness ==
    \E a \in NotifyCalls, b \in NotifyCalls :
        /\ a # b
        /\ cfg.detection.cooldown_seconds > 0
        /\ FailedAttempt(a)
        /\ NotifyCall(b).now >= NotifyCall(a).now
        /\ NotifyCall(b).now - NotifyCall(a).now < cfg.detection.cooldown_seconds
        /\ ~NotifyCall(b).posted
        /\ NotifyCall(b).seen = NotifyCall(a).now
        /\ posts[b[1]] = <<>>
        /\ Done(b[1])

\* The backend POST attempts made so far.
PostAttempts == SumOver([r \in Requests |-> Len(posts[r])], Requests)

\* The fire decisions that passed the notifier throttle.
PassedNotifier == Cardinality({c \in NotifyCalls : NotifyCall(c).posted})

C12_AttemptsBounded ==
    /\ PostAttempts <= PassedNotifier
    /\ \A r \in Requests : Len(posts[r]) <= 1

\* C12: backend delivery is at-most-once: the POST attempts never outnumber
\* the fire decisions that passed the notifier throttle, no inference event
\* has more than one attempt, and a failed attempt stays failed and starts
\* no further attempt.
C12_DeliveryAtMostOnce ==
    /\ []C12_AttemptsBounded
    /\ [][PostFails => \A r \in Requests : Len(posts'[r]) = Len(posts[r])]_vars
    /\ [][\A r \in Requests : \A i \in 1..Len(posts[r]) :
             posts[r][i].status = "failed" => posts'[r][i].status = "failed"]_vars

\* The only attempt of an event failed; its request is over, the clock has
\* moved past the cooldown window and no thread is left that could retry.
C12_Witness ==
    \E r \in Requests :
        /\ Done(r)
        /\ Len(posts[r]) = 1
        /\ posts[r][1].status = "failed"
        /\ PostAttempts = 1
        /\ PassedNotifier = 1
        /\ cfg.detection.cooldown_seconds > 0
        /\ clock - lastBackend >= cfg.detection.cooldown_seconds
        /\ clock > StartTime
        /\ Quiet

\* The controller is disabled: switched off by configuration or at
\* construction, or its device handle released by shutdown().
Disabled == ~cfg.alarm.enabled \/ ~device

\* No call of activate(), deactivate() or trigger() is past its is_enabled
\* test and before its return.
NoCallInside ==
    /\ manual.pc = "idle"
    /\ \A r \in Requests : reqs[r].pc \notin {"trig_check", "trig_set"}
    /\ pulses["act_lock"] = 0
    /\ pulses["deact_lock"] = 0

\* C13: disabled is absorbing: once the controller is disabled, every call
\* of activate(), deactivate(), trigger() and shutdown() made from then on
\* leaves it disabled and returns at once, without raising, without starting
\* a pulse thread and without changing active, the line or lastTriggerTime.
C13_DisabledIsAbsorbing ==
    [][(Disabled /\ NoCallInside)
       => /\ Disabled'
          /\ NoCallInside'
          /\ raised' = raised
          /\ PulseThreads' = PulseThreads
          /\ active' = active
          /\ line' = line
          /\ lastTrigger' = lastTrigger]_vars

\* After shutdown() of a configured controller a qualifying detection and a
\* manual pulse request have both called trigger() and found it disabled;
\* nothing was started or raised.
C13_Witness ==
    \E r \in Requests :
        /\ cfg.alarm.enabled
        /\ ~device
        /\ Done(r)
        /\ Len(trigLog[r]) = 1
        /\ ~trigLog[r][1].enabled
        /\ Len(trigLog[0]) = 1
        /\ ~trigLog[0][1].enabled
        /\ PulseThreads = 0
        /\ raised = {}
        /\ budget = 0

\* A pulse is between its activate step and its deactivate step with the
\* line switched on.
PulseHolding == pulses["hold"] > 0 /\ active

Released == ~active /\ ~line

\* C14: guaranteed release: whenever a pulse holds the line, a state follows
\* in which active is false and the output line is off, also when
\* shutdown() occurs while the pulse is holding.
C14_PulseEventuallyReleased == PulseHolding ~> Released

\* The _pulse threads that have returned from activate() and not yet from
\* deactivate().
PulsesBetween == pulses["hold"] + pulses["deact_check"] + pulses["deact_lock"]

\* C15: at no reachable state are two pulses at once between their activate
\* step and their deactivate step on the output line, whatever the cooldown
\* and the pulse durations.  (While the device handle exists every such
\* pulse has run the locked body of activate().)
C15_NoOverlappingPulses == device => PulsesBetween <= 1

\* A step in which a call of activate() leaves its locked body.
ActivateReturns ==
    \/ manual.pc = "act_lock" /\ manual'.pc = "idle"
    \/ pulses'["act_lock"] < pulses["act_lock"]

\* A step in which a call of deactivate() leaves its locked body.
DeactivateReturns ==
    \/ manual.pc = "deact_lock" /\ manual'.pc = "idle"
    \/ pulses'["deact_lock"] < pulses["deact_lock"]

\* C16: on an enabled controller activate() when already Active and
\* deactivate() when already Idle change neither active nor the line and
\* make no hardware call (the line is not driven and nothing is raised);
\* activate() from Idle sets the line on and active true, deactivate() from
\* Active sets the line off and active false; neither changes
\* lastTriggerTime.
C16_ActivateDeactivateIdempotent ==
    /\ [][(ActivateReturns /\ IsEnabled)
          => /\ lastTrigger' = lastTrigger
             /\ raised' = raised
             /\ active'
             /\ IF active THEN line' = line ELSE line']_vars
    /\ [][(DeactivateReturns /\ IsEnabled)
          => /\ lastTrigger' = lastTrigger
             /\ raised' = raised
             /\ ~active'
             /\ IF active THEN ~line' ELSE line' = line]_vars

\* Two /alarm requests and nothing else have been served and the alarm is
\* on: activate() twice (the second on an Active controller), or
\* deactivate() on an Idle controller and then activate().
C16_Witness ==
    /\ IsEnabled
    /\ budget = MaxEvents - 2
    /\ clock = StartTime
    /\ manual.pc = "idle"
    /\ \A r \in Requests : ~Arrived(r)
    /\ PulseThreads = 0
    /\ trigLog[0] = <<>>
    /\ active
    /\ line

\* The gating task of request r has been scheduled and has not begun.
GatePending(r) ==
    /\ reqs[r].pc \in {"publish", "publish_wait"}
    /\ \E i \in 2..Len(reqs[r].tasks) : reqs[r].tasks[i] = "gate"

\* The telemetry task of request r has been scheduled and has not begun.
PublishPending(r) == reqs[r].pc = "publish"

\* C17: for one inference event the gating/actuation flow does not wait for
\* the telemetry POST to complete or time out, and the telemetry publish
\* does not wait for the gating flow: whenever one of the two scheduled
\* tasks has not begun, it is able to begin, wherever the other one is.
C17_SubFlowsIndependent ==
    \A r \in Requests :
        /\ GatePending(r) => ENABLED Gate(r)
        /\ PublishPending(r) => ENABLED PublishSend(r)

\* process_detection is running for request r.
InProcessDetection(r) == reqs[r].pc \in {"gate", "trig_check", "trig_set", "notify"}

\* The /alarm handler is inside trigger().
InManualTrigger == manual.pc \in {"trig_check", "trig_set"}

\* C18: trigger() and process_detection are fire-and-forget: each returns to
\* its caller once the background unit is scheduled, without waiting for the
\* end of the pulse's hold period or of the backend POST, however long these
\* take.
C18_FireAndForget ==
    /\ InManualTrigger ~> ~InManualTrigger
    /\ \A r \in Requests : InProcessDetection(r) ~> ~InProcessDetection(r)

\* process_detection has returned and the request is over while the pulse
\* it started is still holding the line and its POST is still in flight.
C18_Witness ==
    \E r \in Requests :
        /\ Done(r)
        /\ StartedOnePulse(r)
        /\ PulseThreads = 1
        /\ pulses["hold"] = 1
        /\ active
        /\ line
        /\ StartedOnePost(r)
        /\ posts[r][1].status = "inflight"

\* A step in which the telemetry POST of request r fails.
PublishFails(r) ==
    /\ telemetry[r] # <<>>
    /\ telemetry[r][1].status = "inflight"
    /\ telemetry'[r][1].status = "failed"

\* The telemetry POST of request r has failed.
TelemetryFailed(r) == telemetry[r] # <<>> /\ telemetry[r][1].status = "failed"

\* A failed telemetry POST was not repeated, and the gating of the same
\* result ran: a qualifying result reached trigger().
C19_GatingRanAfterFailure ==
    \A r \in Requests :
        TelemetryFailed(r)
        => /\ Len(telemetry[r]) = 1
           /\ (Done(r) /\ PipelinePresent /\ Qualifies(reqs[r].dets))
              => Len(trigLog[r]) = 1

\* C19: a failed telemetry POST is absorbed inside publish_inference: the
\* call returns normally to the task runner, which goes on to the gating
\* task scheduled for the same result; nothing is raised, nothing is
\* retried, and the gating/actuation flow still runs.
C19_TelemetryFailureAbsorbed ==
    /\ []C19_GatingRanAfterFailure
    /\ [][\A r \in Requests :
             PublishFails(r)
             => /\ reqs'[r] = Finish(reqs[r])
                /\ reqs'[r].pc = (IF PipelinePresent /\ reqs[r].dets # <<>>
                                  THEN "gate" ELSE "done")
                /\ Len(telemetry'[r]) = 1
                /\ raised' = raised]_vars

\* The telemetry POST of a request failed; its gating still ran and started
\* a pulse and a backend POST.
C19_Witness ==
    \E r \in Requests :
        /\ Done(r)
        /\ TelemetryFailed(r)
        /\ Len(telemetry[r]) = 1
        /\ StartedOnePulse(r)
        /\ StartedOnePost(r)

\* C20: gating selects the detection of maximum confidence, the earliest
\* one among those that tie; the min_confidence and allow-list tests are
\* applied to that detection only: a processed result has called trigger()
\* exactly when its selected detection passes both, whatever the other
\* detections are.
C20_GatingTestsSelectedDetection ==
    \A r \in Requests :
        (Arrived(r) /\ reqs[r].dets # <<>>)
        => /\ IsSelected(reqs[r].dets, HighestIndex(reqs[r].dets))
           /\ \A i \in 1..Len(reqs[r].dets) :
                 IsSelected(reqs[r].dets, i) => i = HighestIndex(reqs[r].dets)
           /\ ~Qualifies(reqs[r].dets) => NothingStarted(r)
           /\ (Done(r) /\ Qualifies(reqs[r].dets))
                 => /\ Len(trigLog[r]) = 1
                    /\ cfg.backend.event_url => Len(notifyLog[r]) = 1

\* Two detections tie above the threshold; the first is not in the
\* allow-list, the second is: the result was processed and nothing started.
C20_Witness ==
    \E r \in Requests :
        /\ Done(r)
        /\ Len(reqs[r].dets) = 2
        /\ reqs[r].dets[1].confidence = reqs[r].dets[2].confidence
        /\ reqs[r].dets[1].confidence >= cfg.detection.min_confidence
        /\ cfg.detection.min_confidence > 0
        /\ cfg.detection.target_labels # <<>>
        /\ ~InAllowList(reqs[r].dets[1].label)
        /\ InAllowList(reqs[r].dets[2].label)
        /\ NothingStarted(r)

\* A step taken inside `with self._lock:` (the locked bodies of activate()
\* and deactivate() are the only code that takes the lock).
LockedStep == ActivateReturns \/ DeactivateReturns

\* A step that writes active, lastTriggerTime or the device handle.
WritesActuatorState ==
    \/ active' # active
    \/ lastTrigger' # lastTrigger
    \/ device' # device

\* C21: every write to the actuator state (active, lastTriggerTime and the
\* device handle) is performed while the controller's lock is held, in
\* activate(), deactivate(), trigger() and shutdown().
C21_WritesUnderLock == [][WritesActuatorState => LockedStep]_vars

MeantDuration(duration) ==
    IF duration.some THEN duration.val ELSE cfg.alarm.duration_seconds

\* C23: the hold period of every started pulse equals max(0.1s, d), where d
\* is the duration supplied to trigger() whenever one is supplied (0
\* included), and the configured default only when none is supplied.
C23_HoldPeriodUsesSuppliedDuration ==
    \A c \in TriggerCalls :
        TriggerCall(c).started
        => TriggerCall(c).hold =
              (IF MeantDuration(TriggerCall(c).duration) > MinHold
               THEN MeantDuration(TriggerCall(c).duration) ELSE MinHold)

\* C24: in every reachable state, also after shutdown() during a pulse or
\* after a manual activate(), active = true implies enabled = true: the
\* status query never reports {enabled: false, active: true}.
C24_ActiveImpliesEnabled == active => IsEnabled

\* C25: under every interleaving of shutdown() with a concurrent activate(),
\* deactivate() or in-flight pulse, no operation calls on()/off() on a
\* device handle that shutdown() has released, so none of them raises.
C25_NoCallOnReleasedHandle == raised = {}

\* C26: a line switched on by a manual activate() stays on and active until
\* deactivate() or shutdown() is called: a pulse that starts and finishes in
\* the meantime does not switch it off.
C26_ManualActivationOutlivesPulse == manual.holds => (line /\ active)

\* A step in which a notifier call returns without starting a POST.
SuppressedNotifyReturns ==
    \E r \in Requests :
        /\ Len(notifyLog'[r]) = Len(notifyLog[r]) + 1
        /\ ~notifyLog'[r][Len(notifyLog'[r])].posted

\* Each timestamp is the clock reading of an accepted request (or still 0.0).
C27_WindowsStartAtAcceptedRequests ==
    /\ lastTrigger = 0 \/ \E c \in TriggerCalls :
                              TriggerCall(c).started /\ TriggerCall(c).now = lastTrigger
    /\ lastBackend = 0 \/ \E c \in NotifyCalls :
                              NotifyCall(c).posted /\ NotifyCall(c).now = lastBackend

\* C27: a request suppressed by a cooldown leaves that throttle's timestamp
\* unchanged: a skipped trigger() does not change lastTriggerTime, a firing
\* detection skipped by the notifier does not change lastDispatchTime; each
\* window is measured from the last accepted request.
C27_SuppressedLeavesTimestamp ==
    /\ []C27_WindowsStartAtAcceptedRequests
    /\ [][SuppressedTriggerReturns => lastTrigger' = lastTrigger]_vars
    /\ [][SuppressedNotifyReturns => lastBackend' = lastBackend]_vars

\* A later detection was suppressed by both cooldowns, one second after the
\* accepted one: both timestamps still hold the accepted reading.
C27_Witness ==
    \E r \in Requests :
        /\ Done(r)
        /\ Len(trigLog[r]) = 1
        /\ trigLog[r][1].enabled
        /\ ~trigLog[r][1].started
        /\ trigLog[r][1].now > lastTrigger
        /\ lastTrigger > 0
        /\ Len(notifyLog[r]) = 1
        /\ ~notifyLog[r][1].posted
        /\ notifyLog[r][1].now > lastBackend
        /\ lastBackend > 0

\* C28: with a non-decreasing clock, lastTriggerTime of the actuator and
\* lastDispatchTime of the notifier never decrease, under any interleaving
\* of concurrent trigger() and process_detection calls and for any
\* configured cooldown, 0 included.
C28_TimestampsNeverDecrease ==
    [][lastTrigger' >= lastTrigger /\ lastBackend' >= lastBackend]_vars
====
